---- MODULE Spec2Model ----
(***************************************************************************)
(* State-machine model of src/hash_table/ht.c: an open-addressing hash     *)
(* table with linear probing, string keys hashed with 64-bit FNV-1a,       *)
(* growth by doubling at load factor 1/2, and a cursor iterator.           *)
(*                                                                         *)
(* Memory is modelled explicitly: `heap` maps every live malloc/calloc/    *)
(* strdup block to its contents, the table record, the slot array and      *)
(* the owned key strings are blocks of it, and a pointer is an address     *)
(* (NULL is 0).  The caller's key strings live at the addresses            *)
(* 1..Len(CallerStr), outside the heap.                                    *)
(***************************************************************************)
EXTENDS Integers, Sequences, FiniteSets, TLC

(***************************************************************************)
(* Bounds of the model.                                                    *)
(***************************************************************************)
\* number of filler keys the client inserts (in the order of Fillers)
MaxFill == 15

(***************************************************************************)
(* Program constants.                                                      *)
(***************************************************************************)
NULL == 0
INITIAL_CAPACITY == 16
\* width of size_t and of uint64_t, in bits
SIZE_BITS == 64
\* 14695981039346656037 = 0xCBF29CE484222325, as 8 little-endian bytes
FNV_OFFSET == <<37, 35, 34, 132, 228, 156, 242, 203>>
\* 1099511628211 = 0x00000100000001B3, as 8 little-endian bytes
FNV_PRIME == <<179, 1, 0, 0, 0, 1, 0, 0>>

(***************************************************************************)
(* 64-bit unsigned arithmetic on 8 little-endian bytes (the values do not  *)
(* fit TLC's 32-bit integers).                                             *)
(***************************************************************************)
RECURSIVE XorByte(_, _)
XorByte(a, b) ==
    IF a = 0 THEN b
    ELSE IF b = 0 THEN a
    ELSE (((a % 2) + (b % 2)) % 2) + 2 * XorByte(a \div 2, b \div 2)

RECURSIVE AndByte(_, _)
AndByte(a, b) ==
    IF a = 0 \/ b = 0 THEN 0
    ELSE ((a % 2) * (b % 2)) + 2 * AndByte(a \div 2, b \div 2)

\* hash ^= (uint64_t)(unsigned char)c : the byte is zero-extended
U64XorByte(h, c) == [h EXCEPT ![1] = XorByte(h[1], c)]

RECURSIVE ColSum(_, _, _, _)
ColSum(a, b, i, j) ==
    IF j > i THEN 0 ELSE (a[j] * b[i - j + 1]) + ColSum(a, b, i, j + 1)

RECURSIVE MulLimbs(_, _, _, _)
MulLimbs(a, b, i, carry) ==
    IF i > 8 THEN <<>>
    ELSE LET s == carry + ColSum(a, b, i, 1)
         IN  <<(s % 256)>> \o MulLimbs(a, b, i + 1, (s \div 256))

\* a * b modulo 2^64
U64Mul(a, b) == MulLimbs(a, b, 1, 0)

U64And(a, b) == [i \in 1..8 |-> AndByte(a[i], b[i])]

\* a size_t in 0 .. 2^31-1 widened to 64 bits
RECURSIVE NatLimbs(_, _)
NatLimbs(n, i) ==
    IF i > 8 THEN <<>> ELSE <<(n % 256)>> \o NatLimbs((n \div 256), i + 1)

NatToU64(n) == NatLimbs(n, 1)

\* capacity - 1 in size_t arithmetic: 0 - 1 wraps to all ones
SizeMinusOne(n) == IF n = 0 THEN [i \in 1..8 |-> 255] ELSE NatToU64(n - 1)

RECURSIVE LimbsToNat(_, _)
LimbsToNat(a, i) ==
    IF i > 8 THEN 0
    ELSE LET rest == LimbsToNat(a, i + 1)
         IN  IF rest = 0 THEN a[i] ELSE a[i] + (256 * rest)

U64ToNat(a) == LimbsToNat(a, 1)

(***************************************************************************)
(* hash_key: 64-bit FNV-1a over the bytes of a NUL-terminated string.  A   *)
(* string is the sequence of its bytes before the terminator.              *)
(***************************************************************************)
RECURSIVE HashLoop(_, _, _)
HashLoop(hash, key, p) ==
    IF p > Len(key) \/ key[p] = 0 THEN hash
    ELSE HashLoop(U64Mul(U64XorByte(hash, key[p]), FNV_PRIME), key, p + 1)

hash_key(key) == HashLoop(FNV_OFFSET, key, 1)

\* (size_t)(hash & (uint64_t)(capacity - 1))
BucketIndex(hash, capacity) == U64ToNat(U64And(hash, SizeMinusOne(capacity)))

(***************************************************************************)
(* The client's key strings (caller memory).  The client sets the two      *)
(* keys of HotKeys ("a", "b") freely, inserts the keys of Fillers one      *)
(* after the other, and only ever looks up the key of NeverKeys ("c").     *)
(* At capacity 16 the home buckets are a:12 b:5 c:2 and q:12 j:13 zb:13    *)
(* o:14 p:15 r:5 s:2 t:3 k15:12 e:0 u:0 n:1 y:4 w:6 g:6 m:8, so probes     *)
(* collide and wrap around the end of the slot array.  j and zb share      *)
(* their home bucket at capacity 32 (29) and 64 (61) as well, so the       *)
(* re-insertion of a growth meets an occupied slot.                        *)
(***************************************************************************)
HotKeys == << <<97>>, <<98>> >>

NeverKeys == << <<99>> >>

Fillers ==
    << <<113>>, <<106>>, <<122, 98>>, <<111>>, <<112>>, <<114>>, <<115>>, <<116>>,
       <<107, 49, 53>>, <<101>>, <<117>>, <<110>>, <<121>>, <<119>>, <<103>>,
       <<109>> >>

CallerStr == HotKeys \o NeverKeys \o SubSeq(Fillers, 1, MaxFill)

\* addresses of the caller's key strings
KeyArgs == 1..Len(CallerStr)
HotArgs == 1..Len(HotKeys)
NeverArgs == (Len(HotKeys) + 1)..(Len(HotKeys) + Len(NeverKeys))
FillArgs == KeyArgs \ (HotArgs \cup NeverArgs)

\* the non-null value handles the client passes, and those it gives fillers
Values == {1, 2}
FillValues == {1}

(***************************************************************************)
(* The allocator.  malloc may return any free address, and the program     *)
(* only dereferences addresses and compares them with NULL, so its         *)
(* behaviour does not depend on which one: the model fixes the choice by   *)
(* the request.  Past the caller's strings come one address for a table    *)
(* record, two for slot arrays (growth holds the old and the new one),     *)
(* and three regions that hold the copies strdup makes, a string's copy    *)
(* going to that string's place in the first region that has it free.      *)
(***************************************************************************)
NKeys == Len(CallerStr)
RecAddrs == {NKeys + 1}
ArrAddrs == {NKeys + 2, NKeys + 3}
DupAddrs(str) ==
    LET k == CHOOSE j \in KeyArgs : CallerStr[j] = str
    IN  {NKeys + 3 + (n * NKeys) + k : n \in 0..2}

Lowest(S) == CHOOSE a \in S : \A b \in S : a <= b

\* the address malloc/calloc/strdup returns, among the candidates of the request
FreshAddr(h, candidates) == Lowest(candidates \ DOMAIN h)

\* the table's capacities the index cache covers
CachedCaps == {INITIAL_CAPACITY * (2 ^ i) : i \in 0..3}

\* hash_key and the bucket index of every caller string, computed once
KeyBucket ==
    [s \in {CallerStr[k] : k \in KeyArgs} |->
        LET hash == hash_key(s) IN [c \in CachedCaps |-> BucketIndex(hash, c)]]

\* (size_t)(hash_key(key) & (uint64_t)(capacity - 1)) for the string str of key
HomeIndex(str, capacity) ==
    IF str \in DOMAIN KeyBucket /\ capacity \in CachedCaps
    THEN KeyBucket[str][capacity]
    ELSE BucketIndex(hash_key(str), capacity)

(***************************************************************************)
(* Heap blocks.  Every block is a record of the same shape; `kind` says    *)
(* which fields are meaningful.                                            *)
(***************************************************************************)
\* struct ht
HtBlock(entries, capacity, length) ==
    [kind |-> "ht", entries |-> entries, capacity |-> capacity,
     length |-> length, slots |-> <<>>, str |-> <<>>]

\* an array of ht_entry, indexed from 0
ArrBlock(slots) ==
    [kind |-> "entries", entries |-> NULL, capacity |-> 0, length |-> 0,
     slots |-> slots, str |-> <<>>]

\* a NUL-terminated string
StrBlock(str) ==
    [kind |-> "str", entries |-> NULL, capacity |-> 0, length |-> 0,
     slots |-> <<>>, str |-> str]

\* ht_entry
Entry(key, value) == [key |-> key, value |-> value]

\* calloc(n, sizeof(ht_entry)): n zeroed slots
ZeroSlots(n) == [i \in 0..(n - 1) |-> Entry(NULL, NULL)]

Alloc(h, a, block) ==
    [x \in DOMAIN h \cup {a} |-> IF x = a THEN block ELSE h[x]]

\* free(p); free(NULL) does nothing
Free(h, p) == [x \in DOMAIN h \ {p} |-> h[x]]

\* the string a const char* points to
Str(h, p) == IF p \in KeyArgs THEN CallerStr[p] ELSE h[p].str

(***************************************************************************)
(* The linear probe shared by the loops of ht_get and ht_set_entry: from   *)
(* `index`, step forward (wrapping at capacity) until a slot is empty or   *)
(* holds a key equal to `str`.  `n` counts the slots examined: the array   *)
(* does not change during the loop, so after `capacity` occupied,          *)
(* non-matching slots the loop would go round for ever ("hang").           *)
(***************************************************************************)
\* seeded fault: the probe takes any occupied slot for a match (no strcmp)
Probe_nocmp(h, slots, capacity, str, index, n) ==
    IF slots[index].key = NULL THEN [kind |-> "empty", index |-> index]
    ELSE [kind |-> "found", index |-> index]

RECURSIVE Probe(_, _, _, _, _, _)
Probe(h, slots, capacity, str, index, n) ==
    IF n >= capacity THEN [kind |-> "hang", index |-> index]
    ELSE IF slots[index].key = NULL THEN [kind |-> "empty", index |-> index]
    ELSE IF Str(h, slots[index].key) = str
         THEN [kind |-> "found", index |-> index]
    ELSE Probe(h, slots, capacity, str,
               IF index + 1 >= capacity THEN 0 ELSE index + 1, n + 1)

\* seeded fault: ht_get looks at the home slot only and never probes on
ht_get_noprobe(h, table, key) ==
    LET T == h[table]
        e == h[T.entries].slots[HomeIndex(Str(h, key), T.capacity)]
    IN  [ret  |-> IF e.key # NULL /\ Str(h, e.key) = Str(h, key)
                  THEN e.value ELSE NULL,
         hang |-> FALSE]

\* ht_get(table, key): [ret |-> the value or NULL, hang |-> BOOLEAN]
ht_get(h, table, key) ==
    LET T == h[table]
        slots == h[T.entries].slots
        r == Probe(h, slots, T.capacity, Str(h, key),
                   HomeIndex(Str(h, key), T.capacity), 0)
    IN  [ret  |-> IF r.kind = "found" THEN slots[r.index].value ELSE NULL,
         hang |-> r.kind = "hang"]

(***************************************************************************)
(* ht_set_entry(entries, capacity, key, value, plength).  `plength` is     *)
(* NULL or the address of the table record whose length field it points    *)
(* to; `dup_ok` says whether strdup finds memory.  The result is the heap  *)
(* after the call, the returned pointer, whether strdup failed, and        *)
(* whether the probe loop hangs.                                           *)
(***************************************************************************)
\* seeded fault: an update copies the key again and drops the stored copy
EntryUpdate_redup(h, entries, index, value) ==
    LET old == h[entries].slots[index].key
        dup == FreshAddr(h, DupAddrs(h[old].str))
    IN  [heap |-> [Free(Alloc(h, dup, StrBlock(h[old].str)), old)
                     EXCEPT ![entries].slots[index] = Entry(dup, value)],
         ret  |-> dup, oom |-> FALSE, hang |-> FALSE]

\* the key is in slot `index`: overwrite the value, return the stored key
EntryUpdate(h, entries, index, value) ==
    [heap |-> [h EXCEPT ![entries].slots[index].value = value],
     ret  |-> h[entries].slots[index].key, oom |-> FALSE, hang |-> FALSE]

\* seeded fault: the insert path forgets *plength += 1
EntryInsert_nocount(h, entries, index, key, value, plength, dup_ok) ==
    LET dup == FreshAddr(h, DupAddrs(Str(h, key)))
    IN  IF plength # NULL /\ ~dup_ok
        THEN [heap |-> h, ret |-> NULL, oom |-> TRUE, hang |-> FALSE]
        ELSE IF plength # NULL
        THEN [heap |->
                [Alloc(h, dup, StrBlock(Str(h, key)))
                   EXCEPT ![entries].slots[index] = Entry(dup, value)],
              ret  |-> dup, oom |-> FALSE, hang |-> FALSE]
        ELSE [heap |-> [h EXCEPT ![entries].slots[index] = Entry(key, value)],
              ret  |-> key, oom |-> FALSE, hang |-> FALSE]

\* seeded fault: the insert path stores the caller's pointer, without strdup
EntryInsert_alias(h, entries, index, key, value, plength, dup_ok) ==
    IF plength # NULL
    THEN [heap |-> [h EXCEPT ![plength].length = @ + 1,
                             ![entries].slots[index] = Entry(key, value)],
          ret  |-> key, oom |-> FALSE, hang |-> FALSE]
    ELSE [heap |-> [h EXCEPT ![entries].slots[index] = Entry(key, value)],
          ret  |-> key, oom |-> FALSE, hang |-> FALSE]

\* slot `index` is empty: (copy the key and count it, then) fill the slot
EntryInsert(h, entries, index, key, value, plength, dup_ok) ==
    LET dup == FreshAddr(h, DupAddrs(Str(h, key)))
    IN  IF plength # NULL /\ ~dup_ok
        THEN [heap |-> h, ret |-> NULL, oom |-> TRUE, hang |-> FALSE]
        ELSE IF plength # NULL
        THEN [heap |->
                [Alloc(h, dup, StrBlock(Str(h, key)))
                   EXCEPT ![plength].length = @ + 1,
                          ![entries].slots[index] = Entry(dup, value)],
              ret  |-> dup, oom |-> FALSE, hang |-> FALSE]
        ELSE [heap |-> [h EXCEPT ![entries].slots[index] = Entry(key, value)],
              ret  |-> key, oom |-> FALSE, hang |-> FALSE]

ht_set_entry(h, entries, capacity, key, value, plength, dup_ok) ==
    LET r == Probe(h, h[entries].slots, capacity, Str(h, key),
                   HomeIndex(Str(h, key), capacity), 0)
    IN  IF r.kind = "hang"
        THEN [heap |-> h, ret |-> NULL, oom |-> FALSE, hang |-> TRUE]
        ELSE IF r.kind = "found"
        THEN EntryUpdate(h, entries, r.index, value)
        ELSE EntryInsert(h, entries, r.index, key, value, plength, dup_ok)

\* seeded fault: the table grows by half its capacity instead of doubling
Double_half(capacity, bits) == capacity + (capacity \div 2)

\* capacity * 2 in size_t arithmetic of width `bits`.  The model's
\* capacities stay below 2^30, so only a width of at most 30 bits can wrap.
Double(capacity, bits) ==
    IF bits <= 30 THEN (capacity * 2) % (2 ^ bits) ELSE capacity * 2

\* seeded fault: ht_expand copies every slot to the same index of the new
\* array instead of probing for its place
ExpandLoop_copy(h, old, capacity, new_entries, new_capacity, i) ==
    [heap |-> [h EXCEPT ![new_entries].slots =
                  [j \in 0..(new_capacity - 1) |->
                      IF j < capacity THEN h[old].slots[j] ELSE Entry(NULL, NULL)]],
     hang |-> FALSE]

\* the re-insertion loop of ht_expand, from slot i of the old array;
\* ExpandNext continues it with the result s of one ht_set_entry call
RECURSIVE ExpandLoop(_, _, _, _, _, _)
RECURSIVE ExpandNext(_, _, _, _, _, _)
ExpandLoop(h, old, capacity, new_entries, new_capacity, i) ==
    IF i >= capacity THEN [heap |-> h, hang |-> FALSE]
    ELSE IF h[old].slots[i].key = NULL
    THEN ExpandLoop(h, old, capacity, new_entries, new_capacity, i + 1)
    ELSE ExpandNext(ht_set_entry(h, new_entries, new_capacity,
                                 h[old].slots[i].key, h[old].slots[i].value,
                                 NULL, TRUE),
                    old, capacity, new_entries, new_capacity, i)

ExpandNext(s, old, capacity, new_entries, new_capacity, i) ==
    IF s.hang THEN [heap |-> s.heap, hang |-> TRUE]
    ELSE ExpandLoop(s.heap, old, capacity, new_entries, new_capacity, i + 1)

(***************************************************************************)
(* ht_expand(table).  `calloc_ok` says whether calloc finds memory,        *)
(* `ndebug` whether the build defines NDEBUG (the asserts are compiled     *)
(* out).  ok is the returned bool; abort says a failed assert ended the    *)
(* process.                                                                *)
(***************************************************************************)
\* seeded fault: ht_expand installs the new array but not the new capacity
ExpandInstall_nocap(l, table, old, new_entries, new_capacity) ==
    IF l.hang
    THEN [heap |-> l.heap, ok |-> FALSE, abort |-> FALSE, hang |-> TRUE]
    ELSE [heap |-> [Free(l.heap, old) EXCEPT ![table].entries = new_entries],
          ok |-> TRUE, abort |-> FALSE, hang |-> FALSE]

\* the end of ht_expand, with the result l of the re-insertion loop
ExpandInstall(l, table, old, new_entries, new_capacity) ==
    IF l.hang
    THEN [heap |-> l.heap, ok |-> FALSE, abort |-> FALSE, hang |-> TRUE]
    ELSE [heap |-> [Free(l.heap, old)
                      EXCEPT ![table].entries = new_entries,
                             ![table].capacity = new_capacity],
          ok |-> TRUE, abort |-> FALSE, hang |-> FALSE]

ht_expand(h, table, calloc_ok, ndebug, bits) ==
    LET T == h[table]
        new_capacity == Double(T.capacity, bits)
        new_entries == FreshAddr(h, ArrAddrs)
    IN  IF ~ndebug /\ ~(new_capacity > T.capacity)
        THEN [heap |-> h, ok |-> FALSE, abort |-> TRUE, hang |-> FALSE]
        ELSE IF new_capacity < T.capacity
        THEN [heap |-> h, ok |-> FALSE, abort |-> FALSE, hang |-> FALSE]
        ELSE IF ~calloc_ok
        THEN [heap |-> h, ok |-> FALSE, abort |-> ~ndebug, hang |-> FALSE]
        ELSE ExpandInstall(
                 ExpandLoop(Alloc(h, new_entries, ArrBlock(ZeroSlots(new_capacity))),
                            T.entries, T.capacity, new_entries, new_capacity, 0),
                 table, T.entries, new_entries, new_capacity)

(***************************************************************************)
(* ht_set(table, key, value).  oom names the allocation that failed        *)
(* ("none", "calloc" or "strdup"); grew says ht_expand returned true.      *)
(* SetInsert is the final ht_set_entry call on the table's current array,  *)
(* SetExpanded the part of ht_set after ht_expand returned e.              *)
(***************************************************************************)
SetResult(s, grew) ==
    [heap |-> s.heap, ret |-> s.ret,
     oom |-> IF s.oom THEN "strdup" ELSE "none", grew |-> grew,
     abort |-> FALSE, hang |-> s.hang]

SetInsert(h, table, key, value, dup_ok, grew) ==
    SetResult(ht_set_entry(h, h[table].entries, h[table].capacity,
                           key, value, table, dup_ok), grew)

SetExpanded(e, table, key, value, calloc_ok, dup_ok) ==
    IF ~e.ok
    THEN [heap |-> e.heap, ret |-> NULL,
          oom |-> IF calloc_ok THEN "none" ELSE "calloc", grew |-> FALSE,
          abort |-> e.abort, hang |-> e.hang]
    ELSE SetInsert(e.heap, table, key, value, dup_ok, TRUE)

\* seeded fault: the NULL value is rejected only after the table has grown
ht_set_latecheck(h, table, key, value, calloc_ok, dup_ok, ndebug, bits) ==
    LET grow == h[table].length >= h[table].capacity \div 2
        e == ht_expand(h, table, calloc_ok, ndebug, bits)
    IN  IF grow /\ ~e.ok
        THEN SetExpanded(e, table, key, value, calloc_ok, dup_ok)
        ELSE IF value = NULL
        THEN [heap |-> IF grow THEN e.heap ELSE h, ret |-> NULL,
              oom |-> "none", grew |-> grow, abort |-> FALSE, hang |-> FALSE]
        ELSE SetInsert(IF grow THEN e.heap ELSE h, table, key, value, dup_ok, grow)

\* seeded fault: ht_set does not reject the NULL value
ht_set_nocheck(h, table, key, value, calloc_ok, dup_ok, ndebug, bits) ==
    IF h[table].length >= h[table].capacity \div 2
    THEN SetExpanded(ht_expand(h, table, calloc_ok, ndebug, bits),
                     table, key, value, calloc_ok, dup_ok)
    ELSE SetInsert(h, table, key, value, dup_ok, FALSE)

\* seeded fault: the table grows only once length exceeds capacity / 2
ht_set_late(h, table, key, value, calloc_ok, dup_ok, ndebug, bits) ==
    IF value = NULL
    THEN [heap |-> h, ret |-> NULL, oom |-> "none", grew |-> FALSE,
          abort |-> FALSE, hang |-> FALSE]
    ELSE IF h[table].length > h[table].capacity \div 2
    THEN SetExpanded(ht_expand(h, table, calloc_ok, ndebug, bits),
                     table, key, value, calloc_ok, dup_ok)
    ELSE SetInsert(h, table, key, value, dup_ok, FALSE)

\* seeded fault: ht_set never expands the table
ht_set_nogrow(h, table, key, value, calloc_ok, dup_ok, ndebug, bits) ==
    IF value = NULL
    THEN [heap |-> h, ret |-> NULL, oom |-> "none", grew |-> FALSE,
          abort |-> FALSE, hang |-> FALSE]
    ELSE SetInsert(h, table, key, value, dup_ok, FALSE)

\* seeded fault: ht_set expands the table only for a key that is not present
ht_set_newonly(h, table, key, value, calloc_ok, dup_ok, ndebug, bits) ==
    IF value = NULL
    THEN [heap |-> h, ret |-> NULL, oom |-> "none", grew |-> FALSE,
          abort |-> FALSE, hang |-> FALSE]
    ELSE IF /\ h[table].length >= h[table].capacity \div 2
            /\ ht_get(h, table, key).ret = NULL
    THEN SetExpanded(ht_expand(h, table, calloc_ok, ndebug, bits),
                     table, key, value, calloc_ok, dup_ok)
    ELSE SetInsert(h, table, key, value, dup_ok, FALSE)

\* seeded fault: ht_set expands the table on every call
ht_set_always(h, table, key, value, calloc_ok, dup_ok, ndebug, bits) ==
    IF value = NULL
    THEN [heap |-> h, ret |-> NULL, oom |-> "none", grew |-> FALSE,
          abort |-> FALSE, hang |-> FALSE]
    ELSE SetExpanded(ht_expand(h, table, calloc_ok, ndebug, bits),
                     table, key, value, calloc_ok, dup_ok)

ht_set(h, table, key, value, calloc_ok, dup_ok, ndebug, bits) ==
    IF value = NULL
    THEN [heap |-> h, ret |-> NULL, oom |-> "none", grew |-> FALSE,
          abort |-> FALSE, hang |-> FALSE]
    ELSE IF h[table].length >= h[table].capacity \div 2
    THEN SetExpanded(ht_expand(h, table, calloc_ok, ndebug, bits),
                     table, key, value, calloc_ok, dup_ok)
    ELSE SetInsert(h, table, key, value, dup_ok, FALSE)

\* ht_length(table)
ht_length(h, table) == h[table].length

\* ht_create(): malloc of the record, then calloc of the slot array
ht_create(h, malloc_ok, calloc_ok) ==
    LET t == FreshAddr(h, RecAddrs)
        h1 == Alloc(h, t, HtBlock(NULL, INITIAL_CAPACITY, 0))
        e == FreshAddr(h1, ArrAddrs)
    IN  IF ~malloc_ok THEN [heap |-> h, ret |-> NULL]
        ELSE IF ~calloc_ok THEN [heap |-> Free(h1, t), ret |-> NULL]
        ELSE [heap |-> [Alloc(h1, e, ArrBlock(ZeroSlots(INITIAL_CAPACITY)))
                          EXCEPT ![t].entries = e],
              ret |-> t]

\* the loop of ht_destroy: free every slot's key, from slot i on
RECURSIVE DestroyLoop(_, _, _, _)
DestroyLoop(h, entries, capacity, i) ==
    IF i >= capacity THEN h
    ELSE DestroyLoop(Free(h, h[entries].slots[i].key), entries, capacity, i + 1)

\* seeded fault: ht_destroy frees the slot array and the record, not the keys
ht_destroy_nokeys(h, table) == Free(Free(h, h[table].entries), table)

\* ht_destroy(table)
ht_destroy(h, table) ==
    LET T == h[table]
    IN  Free(Free(DestroyLoop(h, T.entries, T.capacity, 0), T.entries), table)

\* the pointers ht_destroy passes to free, in the order of the calls
RECURSIVE FreedKeys(_, _, _, _)
FreedKeys(h, entries, capacity, i) ==
    IF i >= capacity THEN << >>
    ELSE <<h[entries].slots[i].key>> \o FreedKeys(h, entries, capacity, i + 1)

DestroyFrees(h, table) ==
    FreedKeys(h, h[table].entries, h[table].capacity, 0)
        \o <<h[table].entries, table>>

(***************************************************************************)
(* The iterator, struct hti {key, value, _table, _index}.  ht_iterator     *)
(* leaves key and value unwritten: INDET marks a field that holds no       *)
(* determinate value.                                                      *)
(***************************************************************************)
INDET == -1

ht_iterator(table) ==
    [key |-> INDET, value |-> INDET, _table |-> table, _index |-> 0]

\* seeded fault: the loop of ht_next stops one slot early
\* (it->_index < table->capacity - 1)
RECURSIVE ht_next_short(_, _)
ht_next_short(h, i) ==
    LET T == h[i._table]
        e == h[T.entries].slots[i._index]
        adv == [i EXCEPT !._index = @ + 1]
    IN  IF ~(i._index < T.capacity - 1) THEN [it |-> i, ret |-> FALSE]
        ELSE IF e.key # NULL
        THEN [it |-> [adv EXCEPT !.key = e.key, !.value = e.value], ret |-> TRUE]
        ELSE ht_next_short(h, adv)

\* seeded fault: ht_next rewinds the cursor when it reaches the end
RECURSIVE ht_next_rewind(_, _)
ht_next_rewind(h, i) ==
    LET T == h[i._table]
        e == h[T.entries].slots[i._index]
        adv == [i EXCEPT !._index = @ + 1]
    IN  IF ~(i._index < T.capacity)
        THEN [it |-> [i EXCEPT !._index = 0], ret |-> FALSE]
        ELSE IF e.key # NULL
        THEN [it |-> [adv EXCEPT !.key = e.key, !.value = e.value], ret |-> TRUE]
        ELSE ht_next_rewind(h, adv)

\* ht_next(it): [it |-> the iterator after the call, ret |-> the bool]
RECURSIVE ht_next(_, _)
ht_next(h, i) ==
    LET T == h[i._table]
        e == h[T.entries].slots[i._index]
        adv == [i EXCEPT !._index = @ + 1]
    IN  IF ~(i._index < T.capacity) THEN [it |-> i, ret |-> FALSE]
        ELSE IF e.key # NULL
        THEN [it |-> [adv EXCEPT !.key = e.key, !.value = e.value], ret |-> TRUE]
        ELSE ht_next(h, adv)

(***************************************************************************)
(* The state: the heap, and a single-threaded client that holds a table    *)
(* handle and an iterator and calls the API.                               *)
(***************************************************************************)
VARIABLES
    heap,       \* the live heap blocks: address -> block
    tab,        \* the client's ht* (NULL until ht_create succeeds)
    pc,         \* "start", "live", "destroyed", "aborted" (a failed assert), "hung"
    it,         \* the client's hti
    trav,       \* history: the state of the traversal, the pairs it yielded, and
                \* whether ht_next was called again after it had returned false
    res,        \* history: the last API call, its arguments and its result
    last,       \* history: per key, the value of its last successful ht_set
    first,      \* history: per key, the pointer its first successful ht_set returned
    ndebug,     \* whether the build defines NDEBUG
    size_bits   \* the width of size_t

vars == <<heap, tab, pc, it, trav, res, last, first, ndebug, size_bits>>

NoIter == [key |-> INDET, value |-> INDET, _table |-> NULL, _index |-> 0]
NoTrav == [state |-> "none", pairs |-> <<>>, again |-> FALSE]

\* prev is the value the key had before an ht_set call (NULL: not stored)
Res(op, key, value, ret, oom, grew, prev) ==
    [op |-> op, key |-> key, value |-> value, ret |-> ret, oom |-> oom,
     grew |-> grew, prev |-> prev]

Init ==
    /\ heap = << >>
    /\ tab = NULL
    /\ pc = "start"
    /\ it = NoIter
    /\ trav = NoTrav
    /\ res = Res("none", NULL, NULL, NULL, "none", FALSE, NULL)
    /\ last = [k \in KeyArgs |-> NULL]
    /\ first = [k \in KeyArgs |-> NULL]
    /\ ndebug \in BOOLEAN
    /\ size_bits = SIZE_BITS

\* the fields of the client's table
Capacity == heap[tab].capacity
Length == heap[tab].length
Slots == heap[heap[tab].entries].slots

\* the filler key the client inserts next (NULL when all are in)
NextFill ==
    LET todo == {k \in FillArgs : last[k] = NULL}
    IN  IF todo = {} THEN NULL ELSE CHOOSE k \in todo : \A j \in todo : k <= j

\* the filler key the client inserted last (NULL when none is in)
PrevFill ==
    LET done == {k \in FillArgs : last[k] # NULL}
    IN  IF done = {} THEN NULL ELSE CHOOSE k \in done : \A j \in done : k >= j

\* the calls the client makes: any value for a hot key, one of FillValues (or a
\* rejected NULL) for the next filler
ClientSets(key, value) ==
    IF key \in HotArgs THEN TRUE
    ELSE key = NextFill /\ value \in FillValues \cup {NULL}

\* the keys the client looks up
ClientGets == (HotArgs \cup NeverArgs \cup {NextFill, PrevFill}) \ {NULL}

\* the allocation that finds no memory during a call, if any
Faults == {"none", "calloc", "strdup"}

\* a fault is injected only into a call that reaches that allocation:
\* calloc when the table is due to grow and the doubled capacity has not
\* wrapped, strdup when the key is new
FaultReached(key, value, fault) ==
    CASE fault = "none" -> TRUE
      [] fault = "calloc" -> /\ value # NULL /\ Length >= Capacity \div 2
                             /\ Double(Capacity, size_bits) > Capacity
      [] fault = "strdup" -> value # NULL /\ last[key] = NULL

Create ==
    /\ pc = "start"
    /\ \E malloc_ok \in BOOLEAN, calloc_ok \in BOOLEAN :
         \E r \in {ht_create(heap, malloc_ok, calloc_ok)} :
             /\ heap' = r.heap
             /\ tab' = r.ret
             /\ pc' = IF r.ret = NULL THEN "start" ELSE "live"
             /\ res' = Res("create", NULL, NULL, r.ret,
                           IF r.ret = NULL THEN "alloc" ELSE "none", FALSE, NULL)
    /\ UNCHANGED <<it, trav, last, first, ndebug, size_bits>>

(***************************************************************************)
(* The client keeps to the documented restriction on iterators: between    *)
(* ht_iterator and the ht_next that returns false it calls nothing but     *)
(* ht_next, and it drops a finished iterator before any other call.        *)
(***************************************************************************)
Set ==
    /\ pc = "live"
    /\ trav.state # "active"
    /\ \E key \in KeyArgs, value \in Values \cup {NULL}, fault \in Faults :
         /\ ClientSets(key, value)
         /\ FaultReached(key, value, fault)
         /\ \E r \in {ht_set(heap, tab, key, value, fault # "calloc",
                             fault # "strdup", ndebug, size_bits)} :
                /\ heap' = r.heap
                /\ pc' = IF r.abort THEN "aborted"
                         ELSE IF r.hang THEN "hung" ELSE "live"
                /\ res' = Res("set", key, value, r.ret, r.oom, r.grew, last[key])
                /\ last' = IF r.ret # NULL THEN [last EXCEPT ![key] = value]
                           ELSE last
                /\ first' = IF r.ret # NULL /\ first[key] = NULL
                            THEN [first EXCEPT ![key] = r.ret]
                            ELSE first
    /\ it' = NoIter
    /\ trav' = NoTrav
    /\ UNCHANGED <<tab, ndebug, size_bits>>

Get ==
    /\ pc = "live"
    /\ trav.state # "active"
    /\ \E key \in ClientGets :
         \E r \in {ht_get(heap, tab, key)} :
             /\ pc' = IF r.hang THEN "hung" ELSE "live"
             /\ res' = Res("get", key, NULL, r.ret, "none", FALSE, NULL)
    /\ it' = NoIter
    /\ trav' = NoTrav
    /\ UNCHANGED <<heap, tab, last, first, ndebug, size_bits>>

LengthCall ==
    /\ pc = "live"
    /\ trav.state # "active"
    /\ res' = Res("length", NULL, NULL, ht_length(heap, tab), "none", FALSE, NULL)
    /\ it' = NoIter
    /\ trav' = NoTrav
    /\ UNCHANGED <<heap, tab, pc, last, first, ndebug, size_bits>>

Iterator ==
    /\ pc = "live"
    /\ it' = ht_iterator(tab)
    /\ trav' = [state |-> "active", pairs |-> <<>>, again |-> FALSE]
    /\ res' = Res("iterator", NULL, NULL, NULL, "none", FALSE, NULL)
    /\ UNCHANGED <<heap, tab, pc, last, first, ndebug, size_bits>>

NextCall ==
    /\ pc = "live"
    /\ trav.state # "none"
    /\ \E r \in {ht_next(heap, it)} :
           /\ it' = r.it
           /\ trav' = IF r.ret
                      THEN [trav EXCEPT !.pairs = Append(@, <<r.it.key, r.it.value>>)]
                      ELSE [trav EXCEPT !.state = "ended",
                                        !.again = (trav.state = "ended")]
           /\ res' = Res("next", NULL, NULL, IF r.ret THEN 1 ELSE 0, "none", FALSE, NULL)
    /\ UNCHANGED <<heap, tab, pc, last, first, ndebug, size_bits>>

Destroy ==
    /\ pc = "live"
    /\ trav.state # "active"
    /\ heap' = ht_destroy(heap, tab)
    /\ pc' = "destroyed"
    /\ it' = NoIter
    /\ trav' = NoTrav
    /\ res' = Res("destroy", NULL, NULL, NULL, "none", FALSE, NULL)
    /\ UNCHANGED <<tab, last, first, ndebug, size_bits>>

Next ==
    \/ Create
    \/ Set
    \/ Get
    \/ LengthCall
    \/ Iterator
    \/ NextCall
    \/ Destroy

Spec == Init /\ [][Next]_vars

(***************************************************************************)
(* The same program built for a target whose size_t has so few bits that   *)
(* doubling the capacity wraps around within a few growths: with 5 bits    *)
(* 16 * 2 is 0, with 6 bits 32 * 2 is 0.                                   *)
(***************************************************************************)
NarrowBits == {5, 6}

InitNarrow ==
    /\ heap = << >>
    /\ tab = NULL
    /\ pc = "start"
    /\ it = NoIter
    /\ trav = NoTrav
    /\ res = Res("none", NULL, NULL, NULL, "none", FALSE, NULL)
    /\ last = [k \in KeyArgs |-> NULL]
    /\ first = [k \in KeyArgs |-> NULL]
    /\ ndebug \in BOOLEAN
    /\ size_bits \in NarrowBits

SpecNarrow == InitNarrow /\ [][Next]_vars

(***************************************************************************)
(* Properties.                                                             *)
(***************************************************************************)
Live == pc = "live"

\* what ht_get returns for a key in the current state
GetOf(key) == ht_get(heap, tab, key).ret

\* the keys set successfully so far, and the occupied slots
Stored == {k \in KeyArgs : last[k] # NULL}
Occupied == {i \in DOMAIN Slots : Slots[i].key # NULL}

\* C1 (last write wins): in every state of a live table, ht_get of a key
\* that was set successfully returns the value of its most recent successful
\* ht_set, whatever calls on other keys, failed calls and growths came since.
C1_LastWriteWins ==
    Live => \A k \in Stored : GetOf(k) = last[k]

\* a lookup returned the second value of a key that was overwritten, in a
\* table that has grown, while another key holds a different value
C1_Witness ==
    /\ Live
    /\ res.op = "get" /\ res.key \in HotArgs /\ res.ret = 2
    /\ last[res.key] = 2
    /\ \E k \in HotArgs : last[k] = 1
    /\ Capacity > INITIAL_CAPACITY

\* C2 (miss): in every state of a live table, ht_get returns NULL for every
\* key that was never set successfully.
C2_Miss ==
    Live => \A k \in KeyArgs \ Stored : GetOf(k) = NULL

\* a lookup of the never-inserted key "c" returned NULL although its home
\* slot is occupied by another key
C2_Witness ==
    /\ Live
    /\ res.op = "get" /\ res.key \in NeverArgs /\ res.ret = NULL
    /\ Slots[HomeIndex(CallerStr[res.key], Capacity)].key # NULL

\* C3 (length): in every state of a live table, length is the number of
\* distinct keys set successfully so far and the number of occupied slots
\* (so a successful set of a new key adds one, an update or a failed set none).
C3_Length ==
    Live => /\ ht_length(heap, tab) = Cardinality(Stored)
            /\ ht_length(heap, tab) = Cardinality(Occupied)

\* an update of a present key has just succeeded in a table that holds more
\* keys than its initial capacity allows, after failed sets left it unchanged
C3_Witness ==
    /\ Live
    /\ res.op = "set" /\ res.ret # NULL /\ res.prev # NULL
    /\ res.prev # res.value
    /\ Length > INITIAL_CAPACITY \div 2

\* C4 (load factor): in every state between calls of a live table,
\* length <= capacity / 2.
C4_LoadFactor ==
    Live => Length <= Capacity \div 2

\* a set has just filled a grown table to exactly half its capacity
C4_Witness ==
    /\ Live
    /\ res.op = "set" /\ res.ret # NULL
    /\ Capacity > INITIAL_CAPACITY
    /\ Length = Capacity \div 2


\* C5 (growth preserves the mapping): in every state where the next insert
\* makes the table grow, a successful ht_expand leaves length unchanged and
\* leaves what ht_get returns unchanged for every key, stored or not.
C5_GrowthPreserves ==
    (Live /\ Length >= Capacity \div 2) =>
        \A e \in {ht_expand(heap, tab, TRUE, ndebug, size_bits)} :
            e.ok => /\ ht_length(e.heap, tab) = Length
                    /\ \A k \in KeyArgs : ht_get(e.heap, tab, k).ret = GetOf(k)

\* a table that has grown once is full enough to grow a second time
C5_Witness ==
    /\ Live
    /\ Capacity = 2 * INITIAL_CAPACITY
    /\ Length >= Capacity \div 2
    /\ \E k \in HotArgs : last[k] = 2

\* C6 (iteration completeness): when a fresh iterator over an unmodified
\* table has been advanced until ht_next returned false, it has yielded
\* exactly length pairs, every stored key once, no other key, and with each
\* key the value ht_get returns for it; on an empty table it yielded nothing.
C6_IterationComplete ==
    (Live /\ trav.state = "ended") =>
        LET n == Len(trav.pairs)
            keys == {trav.pairs[i][1] : i \in 1..n}
        IN  /\ n = ht_length(heap, tab)
            /\ Cardinality(keys) = n
            /\ Cardinality({Str(heap, p) : p \in keys}) = n
            /\ {Str(heap, p) : p \in keys} = {CallerStr[k] : k \in Stored}
            /\ keys = {Slots[i].key : i \in Occupied}
            /\ \A i \in 1..n : trav.pairs[i][2] = GetOf(trav.pairs[i][1])

\* a traversal of a grown table has ended after yielding more pairs than
\* the initial table can hold
C6_Witness ==
    /\ Live
    /\ trav.state = "ended"
    /\ Len(trav.pairs) > INITIAL_CAPACITY \div 2

\* C7 (NULL value rejected): an ht_set call with a NULL value returns NULL
\* and changes nothing: the heap (the record, the slot array, every key)
\* is as before, also when length >= capacity / 2.
C7_NullNoop ==
    [][(res'.op = "set" /\ res'.value = NULL) =>
           (res'.ret = NULL /\ heap' = heap /\ pc' = pc /\ last' = last)]_vars

\* a NULL value has just been rejected by a table that is due to grow
C7_Witness ==
    /\ Live
    /\ res.op = "set" /\ res.value = NULL /\ res.ret = NULL
    /\ ~res.grew
    /\ Length >= Capacity \div 2

\* C8 (allocation-failure atomicity), as claimed: an ht_set call in which an
\* allocation fails returns NULL and leaves the whole heap as it was.
C8_AllocFailureAtomic ==
    [][(res'.op = "set" /\ res'.oom # "none") =>
           (res'.ret = NULL /\ heap' = heap)]_vars

\* C9 (failure kinds distinguishable), as claimed: the result of an ht_set
\* call that failed for lack of memory differs from the result ht_set gives
\* for a NULL value.
C9_Distinguishable ==
    (Live /\ res.op = "set" /\ res.oom # "none") =>
        res.ret # ht_set(heap, tab, res.key, NULL, TRUE, TRUE, ndebug, size_bits).ret

\* C9, amended: ht_set returns NULL exactly when it fails, for a NULL value
\* and for a failed allocation alike, so the result tells failure from
\* success but not the one kind of failure from the other.
C9_FailureIsNull ==
    (Live /\ res.op = "set") =>
        (res.ret = NULL <=> (res.value = NULL \/ res.oom # "none"))

\* a set of a new key has just failed in strdup and returned NULL
C9_Witness ==
    /\ Live
    /\ res.op = "set" /\ res.value # NULL /\ res.oom = "strdup"
    /\ res.ret = NULL

RECURSIVE IsPow2(_)
IsPow2(n) == n = 1 \/ (n > 1 /\ n % 2 = 0 /\ IsPow2(n \div 2))

\* the shape of a live table: capacity a power of two, one slot per index
\* below it, every key's home index among them, and the table as ht_create
\* leaves it right after ht_create
C10_Shape ==
    Live =>
        /\ IsPow2(Capacity)
        /\ DOMAIN Slots = 0..(Capacity - 1)
        /\ \A k \in KeyArgs :
             BucketIndex(hash_key(CallerStr[k]), Capacity) \in 0..(Capacity - 1)
        /\ res.op = "create" =>
             (Capacity = INITIAL_CAPACITY /\ Length = 0 /\ Occupied = {})

\* a step of a live table that changes the capacity doubles it
C10_Doubles ==
    (pc = "live" /\ pc' = "live" /\ Capacity' # Capacity) =>
        Capacity' = 2 * Capacity

\* C10 (capacity): the capacity of a live table is a power of two (so not
\* zero), it is 16 with length 0 and every slot empty right after
\* ht_create, it only ever changes by doubling, and the home index
\* hash & (capacity - 1) of every key is a slot index.
C10_Capacity == []C10_Shape /\ [][C10_Doubles]_vars

\* the table has doubled twice
C10_Witness ==
    /\ Live
    /\ res.op = "set" /\ res.grew
    /\ Capacity = 4 * INITIAL_CAPACITY


\* the probe ht_get and ht_set_entry run for a key in the current table, and
\* the number of slots it examines before it stops
ProbeOf(k) ==
    Probe(heap, Slots, Capacity, CallerStr[k], HomeIndex(CallerStr[k], Capacity), 0)

Examined(k) ==
    LET d == ProbeOf(k).index - HomeIndex(CallerStr[k], Capacity)
    IN  (IF d < 0 THEN d + Capacity ELSE d) + 1

\* C11 (termination): no call ever fails to return.  In every state of a
\* live table the slot array has an Empty slot, the probe of ht_get and
\* ht_set_entry for every key stops at an Empty slot or at the key after
\* examining at most capacity slots, the re-insertion probes of a growth
\* that is due all stop and leave an Empty slot in the new array, and the
\* cursor of an iterator is at most capacity, which bounds the loop of ht_next.
C11_Terminates ==
    /\ pc # "hung"
    /\ Live =>
        /\ Occupied # DOMAIN Slots
        /\ \A k \in KeyArgs :
             /\ ProbeOf(k).kind \in {"empty", "found"}
             /\ Examined(k) <= Capacity
        /\ Length >= Capacity \div 2 =>
             \A e \in {ht_expand(heap, tab, TRUE, ndebug, size_bits)} :
                 /\ ~e.hang
                 /\ e.ok => \E i \in DOMAIN e.heap[e.heap[tab].entries].slots :
                                e.heap[e.heap[tab].entries].slots[i].key = NULL
        /\ trav.state # "none" =>
             /\ it._index <= Capacity
             /\ ht_next(heap, it).it._index <= Capacity

\* an insert has just returned and left the table due to grow, and the
\* probe of one stored key passes at least three slots and wraps around the
\* end of the slot array
C11_Witness ==
    /\ Live
    /\ res.op = "set" /\ res.ret # NULL /\ res.prev = NULL
    /\ Length >= Capacity \div 2
    /\ \E k \in Stored :
         /\ ProbeOf(k).index < HomeIndex(CallerStr[k], Capacity)
         /\ Examined(k) >= 3


\* the cursor of the client's iterator: within 0..capacity, with no more
\* pairs yielded than slots passed, and at the end for good once ht_next
\* has returned false
C12_Cursor ==
    (Live /\ trav.state # "none") =>
        /\ it._table = tab
        /\ it._index \in 0..Capacity
        /\ Len(trav.pairs) <= it._index
        /\ trav.state = "ended" =>
             /\ it._index = Capacity
             /\ ht_next(heap, it) = [it |-> it, ret |-> FALSE]

\* ht_iterator sets the cursor to 0; ht_next never moves it back, and a
\* call after the end returns false and yields nothing
C12_Step ==
    /\ res'.op = "iterator" => (it'._index = 0 /\ trav'.pairs = << >>)
    /\ res'.op = "next" =>
         /\ it'._index >= it._index
         /\ it'._index <= Capacity
         /\ trav.state = "ended" =>
              (res'.ret = 0 /\ it' = it /\ trav'.pairs = trav.pairs)

\* C12 (iterator finite and single-pass): over a table that is not modified
\* during the traversal, an iterator starts at cursor 0, its cursor never
\* decreases and never exceeds capacity, it yields at most capacity pairs,
\* and once ht_next has returned false every later ht_next on it returns
\* false again and yields no pair.
C12_SinglePass == []C12_Cursor /\ [][C12_Step]_vars

\* ht_next was called again on an iterator that had ended after yielding
\* the pairs of a grown table
C12_Witness ==
    /\ Live
    /\ trav.state = "ended" /\ trav.again
    /\ res.op = "next" /\ res.ret = 0
    /\ Len(trav.pairs) > INITIAL_CAPACITY \div 2
    /\ Capacity > INITIAL_CAPACITY


\* the key buffers (strdup blocks) of a heap
KeyBufs(h) == {a \in DOMAIN h : h[a].kind = "str"}

\* the slot the table t holds the caller's key k in, -1 if it holds none
SlotOf(h, t, k) ==
    LET r == Probe(h, h[h[t].entries].slots, h[t].capacity, CallerStr[k],
                   HomeIndex(CallerStr[k], h[t].capacity), 0)
    IN  IF r.kind = "found" THEN r.index ELSE -1

\* the key pointer the table t stores for the caller's key k, NULL if none
StoredKey(h, t, k) ==
    IF SlotOf(h, t, k) = -1 THEN NULL
    ELSE h[h[t].entries].slots[SlotOf(h, t, k)].key

\* the pointer stored for a key is the one its first insert returned
C13_Refs ==
    Live => \A k \in KeyArgs : StoredKey(heap, tab, k) = first[k]

\* a successful ht_set of a key that is present: the key buffers are the
\* same blocks with the same contents, the length is the same, the pointer
\* stored for every key is the same, the returned pointer is the stored
\* one, the key has the new value and every other key its old one, and a
\* call that does not grow the table changes nothing but that slot's value
C13_Step ==
    (res'.op = "set" /\ res'.ret # NULL /\ res'.prev # NULL) =>
        /\ KeyBufs(heap') = KeyBufs(heap)
        /\ \A a \in KeyBufs(heap) : heap'[a] = heap[a]
        /\ Length' = Length
        /\ \A k \in KeyArgs : StoredKey(heap', tab, k) = StoredKey(heap, tab, k)
        /\ res'.ret = StoredKey(heap, tab, res'.key)
        /\ res'.ret = first[res'.key]
        /\ ht_get(heap', tab, res'.key).ret = res'.value
        /\ \A k \in KeyArgs \ {res'.key} :
             ht_get(heap', tab, k).ret = ht_get(heap, tab, k).ret
        /\ ~res'.grew =>
             heap' = [heap EXCEPT ![heap[tab].entries].slots[
                          SlotOf(heap, tab, res'.key)].value = res'.value]

\* C13 (update reuses key storage): a successful ht_set of a key that is
\* already present allocates and frees no key buffer, leaves the stored key
\* pointer as it is, overwrites only that slot's value, and returns the
\* stored key pointer, the one the first insert of the key returned.
C13_UpdateReusesKey == []C13_Refs /\ [][C13_Step]_vars

\* an update with a new value has just returned the stored key pointer,
\* in a call that also grew the table
C13_Witness ==
    /\ Live
    /\ res.op = "set" /\ res.ret # NULL /\ res.prev # NULL
    /\ res.prev # res.value
    /\ res.ret = first[res.key]
    /\ res.grew


\* the key pointers in the slots of the table t
SlotKeys(h, t) ==
    {h[h[t].entries].slots[i].key : i \in DOMAIN h[h[t].entries].slots} \ {NULL}

\* every stored key pointer is a live strdup block, not a caller's string,
\* and a growth that is due keeps every key buffer as it is and puts the
\* same key pointers into the new array
C14_Owned ==
    Live =>
        /\ SlotKeys(heap, tab) \subseteq KeyBufs(heap)
        /\ SlotKeys(heap, tab) \cap KeyArgs = {}
        /\ Length >= Capacity \div 2 =>
             \A e \in {ht_expand(heap, tab, TRUE, ndebug, size_bits)} :
                 e.ok =>
                     /\ KeyBufs(e.heap) = KeyBufs(heap)
                     /\ \A a \in KeyBufs(heap) : e.heap[a] = heap[a]
                     /\ SlotKeys(e.heap, tab) = SlotKeys(heap, tab)
                     /\ \A k \in KeyArgs :
                          StoredKey(e.heap, tab, k) = StoredKey(heap, tab, k)

\* a successful ht_set of a key that is not present returns a block that
\* was not allocated before the call, holds a copy of the key and is the
\* pointer now stored for the key; it is the only key buffer that is new
C14_Insert ==
    (res'.op = "set" /\ res'.ret # NULL /\ res'.prev = NULL) =>
        /\ res'.ret \notin KeyArgs
        /\ res'.ret \notin DOMAIN heap
        /\ KeyBufs(heap') = KeyBufs(heap) \cup {res'.ret}
        /\ \A a \in KeyBufs(heap) : heap'[a] = heap[a]
        /\ heap'[res'.ret].str = CallerStr[res'.key]
        /\ StoredKey(heap', tab, res'.key) = res'.ret

\* C14 (key ownership): the key a first insert stores is a freshly allocated
\* copy, never the caller's buffer, and ht_set returns that copy; growth
\* moves every stored key pointer into the new array unchanged, so the key
\* buffers the table owns are the same before and after.
C14_KeyOwnership == []C14_Owned /\ [][C14_Insert]_vars

\* an insert of a new key has just returned its copy, in a call that grew
\* the table for the second time
C14_Witness ==
    /\ Live
    /\ res.op = "set" /\ res.ret # NULL /\ res.prev = NULL
    /\ res.grew
    /\ res.ret \in KeyBufs(heap) /\ res.ret \notin KeyArgs
    /\ Capacity = 4 * INITIAL_CAPACITY


\* the heap blocks of a live table are its record, its slot array and one
\* key buffer per occupied slot; ht_destroy frees each of them once and
\* nothing else; before a successful ht_create and after ht_destroy no
\* block is allocated
C15_Heap ==
    /\ pc \in {"start", "destroyed"} => heap = << >>
    /\ Live =>
        /\ DOMAIN heap = {tab, heap[tab].entries} \cup SlotKeys(heap, tab)
        /\ heap[tab].kind = "ht"
        /\ heap[heap[tab].entries].kind = "entries"
        /\ SlotKeys(heap, tab) \subseteq KeyBufs(heap)
        /\ Cardinality(SlotKeys(heap, tab)) = Cardinality(Occupied)
        /\ LET f == DestroyFrees(heap, tab)
               nz == {j \in 1..Len(f) : f[j] # NULL}
           IN  /\ \A j \in nz : f[j] \in DOMAIN heap
               /\ \A j \in nz, l \in nz : f[j] = f[l] => j = l
               /\ {f[j] : j \in nz} = DOMAIN heap
        /\ ht_destroy(heap, tab) = << >>

\* a growth frees the old slot array, which was allocated, and a failed
\* ht_create leaves nothing allocated
C15_Step ==
    /\ (res'.op = "set" /\ res'.grew) =>
         /\ heap[tab].entries \in DOMAIN heap
         /\ heap[tab].entries \notin DOMAIN heap'
         /\ heap'[tab].entries \notin DOMAIN heap
    /\ (res'.op = "create" /\ res'.ret = NULL) => heap' = << >>

\* C15 (no leak, no double free): after any calls of ht_create and ht_set
\* (successful, updating or failing) the heap blocks of a live table are
\* exactly its record, its current slot array and one key buffer per
\* occupied slot, a growth frees the old array once, a failed ht_create
\* leaves nothing allocated, and ht_destroy frees every block exactly once.
C15_NoLeak == []C15_Heap /\ [][C15_Step]_vars

\* a table that held more keys than its initial capacity, so grew twice,
\* has been destroyed
C15_Witness ==
    /\ pc = "destroyed" /\ res.op = "destroy"
    /\ heap = << >>
    /\ Cardinality(Stored) > INITIAL_CAPACITY


\* C16 (growth trigger and factor), as claimed: an ht_set call with a
\* non-null value doubles the capacity if and only if length >= capacity / 2
\* on entry, and leaves it unchanged when length < capacity / 2.
C16_GrowsIff ==
    [][(res'.op = "set" /\ res'.value # NULL) =>
           /\ (Length >= Capacity \div 2) <=> (Capacity' = 2 * Capacity)
           /\ (Length < Capacity \div 2) => (Capacity' = Capacity)]_vars

\* C16, amended: an ht_set call with a non-null value doubles the capacity,
\* once, if and only if length >= capacity / 2 on entry and calloc gives
\* ht_expand the new slot array, whether the key is new or present; in
\* every other call, a failed growth included, the capacity is unchanged.
C16_GrowsIffAllocated ==
    [][(res'.op = "set" /\ res'.value # NULL) =>
           /\ (Length >= Capacity \div 2 /\ res'.oom # "calloc")
                  <=> (Capacity' = 2 * Capacity)
           /\ res'.grew <=> (Capacity' = 2 * Capacity)
           /\ Capacity' \in {Capacity, 2 * Capacity}
           /\ (Length < Capacity \div 2) => (Capacity' = Capacity)]_vars

\* an update of a present key has just doubled the capacity of a table that
\* holds capacity / 2 keys of the old capacity
C16_Witness ==
    /\ Live
    /\ res.op = "set" /\ res.prev # NULL /\ res.grew
    /\ Capacity = 2 * INITIAL_CAPACITY
    /\ Length = INITIAL_CAPACITY \div 2


\* the slot array of the client's table in the heap h
SlotsOf(h) == h[h[tab].entries].slots

\* C17 (slots move only on growth): an ht_set call entered with
\* length < capacity / 2 keeps the slot array and the capacity and changes
\* at most one slot, the one where the probe for its key stops, which holds
\* that key afterwards; every other slot keeps its key and value at its
\* index.  ht_get, ht_length, ht_iterator and ht_next change nothing in
\* the heap, so no field of the table.
C17_SlotsStay ==
    [][/\ (res'.op = "set" /\ Length < Capacity \div 2) =>
            /\ heap'[tab].entries = heap[tab].entries
            /\ Capacity' = Capacity
            /\ \A i \in DOMAIN Slots :
                 SlotsOf(heap')[i] # Slots[i] =>
                     /\ i = ProbeOf(res'.key).index
                     /\ SlotsOf(heap')[i].key # NULL
                     /\ Str(heap', SlotsOf(heap')[i].key) = CallerStr[res'.key]
       /\ res'.op \in {"get", "length", "iterator", "next"} => heap' = heap]_vars

\* in a grown table an insert that did not grow it has just put a new key
\* into a slot past its home slot, which another key holds
C17_Witness ==
    /\ Live
    /\ res.op = "set" /\ res.ret # NULL /\ res.prev = NULL /\ ~res.grew
    /\ Capacity > INITIAL_CAPACITY
    /\ SlotOf(heap, tab, res.key) # HomeIndex(CallerStr[res.key], Capacity)


\* whether doubling the capacity of the client's table wraps around
Wraps == Double(Capacity, size_bits) <= Capacity

\* C18 (capacity-doubling overflow is fatal), as claimed: an ht_set call
\* ends the process if and only if it has to grow the table and doubling
\* the capacity wraps around in size_t, so a failed allocation never ends
\* it; and the capacity is never 0 and never decreases.
C18_OverflowFatal ==
    [][res'.op = "set" =>
           /\ (pc' = "aborted") <=>
                  (res'.value # NULL /\ Length >= Capacity \div 2 /\ Wraps)
           /\ Capacity' >= Capacity
           /\ Capacity' > 0]_vars

\* the part of C18 that holds in both builds: a wrapped capacity is never
\* installed, and a call that meets the overflow leaves the heap unchanged
C18_NeverWrapped ==
    [][res'.op = "set" =>
           /\ Capacity' >= Capacity
           /\ Capacity' > 0
           /\ (res'.value # NULL /\ Length >= Capacity \div 2 /\ Wraps) =>
                  (heap' = heap /\ res'.ret = NULL)]_vars

\* a call that met the overflow has returned NULL to a running program
C18_OverflowReturned ==
    /\ Live
    /\ res.op = "set" /\ res.value # NULL /\ res.ret = NULL /\ res.oom = "none"
    /\ Length >= Capacity \div 2 /\ Wraps

\* a failed calloc in ht_expand has ended the process
C18_CallocAborted ==
    /\ pc = "aborted"
    /\ res.op = "set" /\ res.oom = "calloc"
    /\ ~Wraps


\* the slot indices from `from` forward to `to`, wrapping at capacity
Path(from, to, capacity) ==
    {(from + d) % capacity :
        d \in 0..(IF to >= from THEN to - from ELSE (to + capacity) - from)}

\* in the table of heap h no string is the key of two slots, and from the
\* home slot of every stored key to the slot that holds it every slot is
\* occupied
ChainOK(h) ==
    LET slots == SlotsOf(h)
        capacity == h[tab].capacity
        occ == {i \in DOMAIN slots : slots[i].key # NULL}
    IN  /\ \A i \in occ, j \in occ :
             Str(h, slots[i].key) = Str(h, slots[j].key) => i = j
        /\ \A i \in occ :
             \A j \in Path(HomeIndex(Str(h, slots[i].key), capacity), i, capacity) :
                 slots[j].key # NULL

\* C19 (probe chain): in every state of a live table no key is stored in two
\* slots, and every slot on the cyclic forward path from a stored key's home
\* slot hash & (capacity - 1) to its slot is occupied; the array a due
\* growth builds by re-insertion satisfies the same.
C19_ProbeChain ==
    Live =>
        /\ ChainOK(heap)
        /\ Length >= Capacity \div 2 =>
             \A e \in {ht_expand(heap, tab, TRUE, ndebug, size_bits)} :
                 e.ok => ChainOK(e.heap)

\* a set has just grown the table for the second time, and in the new array
\* a key sits past its home slot, behind other keys
C19_Witness ==
    /\ Live
    /\ res.op = "set" /\ res.grew
    /\ Capacity = 4 * INITIAL_CAPACITY
    /\ \E k \in Stored \ {res.key} :
         SlotOf(heap, tab, k) # HomeIndex(CallerStr[k], Capacity)

====
